---------------------------- MODULE Spec2Model ----------------------------
(***************************************************************************)
(* Label print bot (src/main.py): text layout engine, quantity parser,     *)
(* print dispatcher and the two chat handlers.                             *)
(*                                                                         *)
(* Strings are sequences of one-character strings.  Lengths are exact      *)
(* rationals scaled to integers: the length unit is 1/254000 pt, so that   *)
(* 1 pt = PT units and 1 mm = 72/25.4 pt = MM units.  Font sizes are kept  *)
(* in half points (the loop of add_page_with_text steps by 0.5), so a      *)
(* size of s points is the integer 2*s.  Comparisons are therefore exact,   *)
(* where the program compares floating-point values.                       *)
(***************************************************************************)
EXTENDS Integers, Sequences, FiniteSets, TLC

VARIABLES
    pc,              \* position of the operation under way
    text,            \* the text argument of the operation
    font_size,       \* add_page_with_text: start size (half points)
    page_w,          \* add_page_with_text: page width
    page_h,          \* add_page_with_text: page height
    margin,          \* add_page_with_text: margin
    padding,         \* add_page_with_text: padding
    leading_factor,  \* add_page_with_text: leading factor, in tenths
    max_width_pt,    \* wrap_text_to_width: max_width_pt
    current_size,    \* add_page_with_text: current_size (half points)
    lines,           \* the lines last laid out
    box_w,           \* the padded box last measured
    box_h,
    box_x2,          \* twice box_x and box_y (the code halves a difference)
    box_y2,
    fit_exit,        \* which break left the fitting loop: "fit" or "floor"
    qty_result,      \* parse_qty: the returned pair
    event,           \* the chat event last handled
    posts,           \* requests the handler issued to the print relay
    msgs,            \* messages (ack / chat_postMessage) the handler sent
    raised           \* whether the handler ended by raising

vars == <<pc, text, font_size, page_w, page_h, margin, padding, leading_factor,
          max_width_pt, current_size, lines, box_w, box_h, box_x2, box_y2,
          fit_exit, qty_result, event, posts, msgs, raised>>

layoutVars == <<font_size, page_w, page_h, margin, padding, leading_factor,
                max_width_pt, current_size, lines, box_w, box_h, box_x2,
                box_y2, fit_exit>>

handlerVars == <<event, posts, msgs, raised>>

(***************************************************************************)
(* Units                                                                   *)
(***************************************************************************)
\* length units per point
PT == 254000
\* length units per millimetre: reportlab.lib.units.mm = 72 / 25.4 pt
MM == 720000
\* the floor of the fitting loop, 6 points, in half points
MinSize == 12

(***************************************************************************)
(* Bounds of the checked instances                                         *)
(***************************************************************************)
MaxTextLen == 4
MaxWrapLen == 6
MaxQtyPieces == 5
MaxCmdPieces == 3
MaxFileLen == 5

(***************************************************************************)
(* Strings                                                                 *)
(***************************************************************************)
\* str.isspace(): what str.split(), str.strip() and the regex \s treat as whitespace
IsSpace(c) == c \in {" ", "\n"}

Max(a, b) == IF a >= b THEN a ELSE b

\* str.strip()
RECURSIVE LStrip(_)
LStrip(s) == IF s # <<>> /\ IsSpace(Head(s)) THEN LStrip(Tail(s)) ELSE s

RECURSIVE RStrip(_)
RStrip(s) ==
    IF s # <<>> /\ IsSpace(s[Len(s)]) THEN RStrip(SubSeq(s, 1, Len(s) - 1)) ELSE s

Strip(s) == RStrip(LStrip(s))

\* str.split(): the maximal runs of non-whitespace characters, in order
RECURSIVE SplitFrom(_, _, _)
SplitFrom(s, cur, acc) ==
    IF s = <<>> THEN (IF cur = <<>> THEN acc ELSE Append(acc, cur))
    ELSE IF IsSpace(Head(s))
         THEN SplitFrom(Tail(s), <<>>, IF cur = <<>> THEN acc ELSE Append(acc, cur))
         ELSE SplitFrom(Tail(s), Append(cur, Head(s)), acc)

Split(s) == SplitFrom(s, <<>>, <<>>)

\* str.splitlines(): lines end at a line break; a final line break opens no line
RECURSIVE SplitLinesFrom(_, _, _)
SplitLinesFrom(s, cur, acc) ==
    IF s = <<>> THEN (IF cur = <<>> THEN acc ELSE Append(acc, cur))
    ELSE IF Head(s) = "\n"
         THEN SplitLinesFrom(Tail(s), <<>>, Append(acc, cur))
         ELSE SplitLinesFrom(Tail(s), Append(cur, Head(s)), acc)

SplitLines(s) == SplitLinesFrom(s, <<>>, <<>>)

\* " ".join(ws)
RECURSIVE JoinSpace(_)
JoinSpace(ws) ==
    IF ws = <<>> THEN <<>>
    ELSE IF Len(ws) = 1 THEN ws[1]
    ELSE ws[1] \o <<" ">> \o JoinSpace(Tail(ws))

(***************************************************************************)
(* Font metrics                                                            *)
(***************************************************************************)
\* advance of a character in 1/1000 of the font size (Helvetica)
CharWidth(c) ==
    CASE c = " " -> 278
      [] c = ":" -> 278
      [] c = "t" -> 278
      [] c = "y" -> 500
      [] c = "W" -> 944
      [] c = "\n" -> 0
      [] OTHER -> 556

RECURSIVE SumWidths(_)
SumWidths(s) == IF s = <<>> THEN 0 ELSE CharWidth(Head(s)) + SumWidths(Tail(s))

\* pdfmetrics.stringWidth(s, font_name, size): 0.001 * sum of advances * size
StringWidth(s, size) == SumWidths(s) * size * (PT \div 2000)

(***************************************************************************)
(* Text layout engine                                                      *)
(***************************************************************************)
\* the for loop of wrap_text_to_width over words[i..]
RECURSIVE WrapLoop(_, _, _, _, _, _)
WrapLoop(words, i, current, acc, size, max_w) ==
    IF i > Len(words) THEN Append(acc, current)
    ELSE LET candidate == current \o <<" ">> \o words[i]
         IN  IF StringWidth(candidate, size) <= max_w
             THEN WrapLoop(words, i + 1, candidate, acc, size, max_w)
             ELSE WrapLoop(words, i + 1, words[i], Append(acc, current), size, max_w)

\* a wrap that measures the new word alone, not the candidate line
RECURSIVE WrapLoopWordOnly(_, _, _, _, _, _)
WrapLoopWordOnly(words, i, current, acc, size, max_w) ==
    IF i > Len(words) THEN Append(acc, current)
    ELSE IF StringWidth(words[i], size) <= max_w
         THEN WrapLoopWordOnly(words, i + 1, current \o <<" ">> \o words[i], acc,
                               size, max_w)
         ELSE WrapLoopWordOnly(words, i + 1, words[i], Append(acc, current),
                               size, max_w)

wrap_text_to_width_word_only(t, size, max_w) ==
    LET words == Split(t)
    IN  IF words = <<>> THEN << <<>> >>
        ELSE WrapLoopWordOnly(words, 2, words[1], <<>>, size, max_w)

\* a wrap that forgets the line under way when the words run out
wrap_text_to_width_no_flush(t, size, max_w) ==
    LET words == Split(t)
        all == WrapLoop(words, 2, words[1], <<>>, size, max_w)
    IN  IF words = <<>> THEN << <<>> >>
        ELSE IF Len(all) = 1 THEN all ELSE SubSeq(all, 1, Len(all) - 1)

\* a wrap whose width test is inverted
RECURSIVE WrapLoopInverted(_, _, _, _, _, _)
WrapLoopInverted(words, i, current, acc, size, max_w) ==
    IF i > Len(words) THEN Append(acc, current)
    ELSE LET candidate == current \o <<" ">> \o words[i]
         IN  IF StringWidth(candidate, size) > max_w
             THEN WrapLoopInverted(words, i + 1, candidate, acc, size, max_w)
             ELSE WrapLoopInverted(words, i + 1, words[i], Append(acc, current),
                                   size, max_w)

wrap_text_to_width_inverted(t, size, max_w) ==
    LET words == Split(t)
    IN  IF words = <<>> THEN << <<>> >>
        ELSE WrapLoopInverted(words, 2, words[1], <<>>, size, max_w)

wrap_text_to_width(t, size, max_w) ==
    LET words == Split(t)
    IN  IF words = <<>> THEN << <<>> >>
        ELSE WrapLoop(words, 2, words[1], <<>>, size, max_w)

layout_lines(t, size, max_text_w) ==
    IF \E i \in 1..Len(t) : t[i] = "\n"
    THEN (IF SplitLines(t) = <<>> THEN << <<>> >> ELSE SplitLines(t))
    ELSE wrap_text_to_width(t, size, max_text_w)

RECURSIVE MaxLineWidth(_, _)
MaxLineWidth(ls, size) ==
    IF ls = <<>> THEN 0
    ELSE IF Len(ls) = 1 THEN StringWidth(ls[1], size)
    ELSE Max(StringWidth(ls[1], size), MaxLineWidth(Tail(ls), size))

\* returns <<box width, box height>>
measure_text_box(ls, size, leading, pad) ==
    <<MaxLineWidth(ls, size) + 2 * pad, Len(ls) * leading + 2 * pad>>

\* leading = current_size * leading_factor
Leading(size, lf) == size * lf * (PT \div 20)

\* safe area of add_page_with_text: <<safe_left, safe_bottom, safe_w, safe_h>>
SafeArea(pw, ph, m) ==
    LET safe_left == m
        safe_right == pw - m
        safe_bottom == m
        safe_top == ph
    IN  <<safe_left, safe_bottom, Max(0, safe_right - safe_left),
          Max(0, safe_top - safe_bottom)>>

\* one layout + measure at a size, as in the loop body and after the loop
LayoutAt(t, size, max_box_w, pad, lf) ==
    LET ls == layout_lines(t, size, max_box_w - 2 * pad)
        box == measure_text_box(ls, size, Leading(size, lf), pad)
    IN  [lines |-> ls, box_w |-> box[1], box_h |-> box[2]]

\* the condition of the first break of the loop
Fits(lay, max_box_w, max_box_h) ==
    lay.box_w <= max_box_w /\ lay.box_h <= max_box_h

\* current_size -= 0.5
Shrink(size) == size - 1

\* the condition of the second break of the loop
BelowFloor(size) == size < MinSize

(***************************************************************************)
(* Inputs of the checked instances                                         *)
(***************************************************************************)
LayoutAlphabet == {"a", "W", " ", "\n"}

Strings(alphabet, n) == UNION {[1..k -> alphabet] : k \in 0..n}

LayoutTexts == Strings(LayoutAlphabet, MaxTextLen)

\* texts without line breaks, which layout_lines hands to wrap_text_to_width
WrapTexts == Strings(LayoutAlphabet \ {"\n"}, MaxWrapLen)

StartSizes == {13, 16}

LeadingFactors == {10, 12}

NoLayout ==
    /\ font_size = 0 /\ page_w = 0 /\ page_h = 0 /\ margin = 0 /\ padding = 0
    /\ leading_factor = 0 /\ max_width_pt = 0 /\ current_size = 0
    /\ lines = <<>> /\ box_w = 0 /\ box_h = 0 /\ box_x2 = 0 /\ box_y2 = 0
    /\ fit_exit = "none"

NoQty == qty_result = <<0, <<>>>>

NoEvent ==
    /\ event = [kind |-> "none", channel |-> "", text |-> <<>>, filetype |-> "",
                data |-> <<>>, download_ok |-> TRUE,
                reply |-> [status |-> 0, body |-> "none"]]
    /\ posts = <<>> /\ msgs = <<>> /\ raised = FALSE

(***************************************************************************)
(* wrap_text_to_width applied to bounded inputs                            *)
(***************************************************************************)
InitWrap ==
    /\ pc = "wrap"
    /\ text \in WrapTexts
    /\ current_size \in StartSizes
    /\ max_width_pt \in {0, 3 * PT, 6 * PT, 9 * PT, 12 * PT, 20 * PT}
    /\ font_size = 0 /\ page_w = 0 /\ page_h = 0 /\ margin = 0 /\ padding = 0
    /\ leading_factor = 0 /\ lines = <<>> /\ box_w = 0 /\ box_h = 0
    /\ box_x2 = 0 /\ box_y2 = 0 /\ fit_exit = "none"
    /\ NoQty /\ NoEvent

Wrap ==
    /\ pc = "wrap"
    /\ lines' = wrap_text_to_width(text, current_size, max_width_pt)
    /\ pc' = "wrapped"
    /\ UNCHANGED <<text, font_size, page_w, page_h, margin, padding,
                   leading_factor, max_width_pt, current_size, box_w, box_h,
                   box_x2, box_y2, fit_exit, qty_result>>
    /\ UNCHANGED handlerVars

SpecWrap == InitWrap /\ [][Wrap]_vars

(***************************************************************************)
(* add_page_with_text: the fitting loop, one iteration per step, and the   *)
(* placement that follows it                                               *)
(***************************************************************************)
\* create_pdf_with_safe_area_centered_textbox never passes the empty string
InitFit ==
    /\ pc = "loop"
    /\ text \in LayoutTexts \ {<<>>}
    /\ font_size \in StartSizes
    /\ page_w \in {4 * MM, 9 * MM}
    /\ page_h \in {3 * MM, 8 * MM}
    /\ margin \in {0, MM}
    /\ padding \in {0, MM}
    /\ leading_factor \in LeadingFactors
    /\ current_size = font_size
    /\ max_width_pt = 0 /\ lines = <<>> /\ box_w = 0 /\ box_h = 0
    /\ box_x2 = 0 /\ box_y2 = 0 /\ fit_exit = "none"
    /\ NoQty /\ NoEvent

\* lines 137-150: one pass of the while loop
FitIteration ==
    /\ pc = "loop"
    /\ LET safe == SafeArea(page_w, page_h, margin)
           lay == LayoutAt(text, current_size, safe[3], padding, leading_factor)
       IN  /\ lines' = lay.lines
           /\ box_w' = lay.box_w
           /\ box_h' = lay.box_h
           /\ IF Fits(lay, safe[3], safe[4])
              THEN /\ current_size' = current_size
                   /\ fit_exit' = "fit"
                   /\ pc' = "place"
              ELSE /\ current_size' = Shrink(current_size)
                   /\ IF BelowFloor(Shrink(current_size))
                      THEN fit_exit' = "floor" /\ pc' = "place"
                      ELSE fit_exit' = fit_exit /\ pc' = "loop"
    /\ UNCHANGED <<text, font_size, page_w, page_h, margin, padding,
                   leading_factor, max_width_pt, box_x2, box_y2, qty_result>>
    /\ UNCHANGED handlerVars

\* lines 152-159: the layout at the chosen size and the centring
Place ==
    /\ pc = "place"
    /\ LET safe == SafeArea(page_w, page_h, margin)
           lay == LayoutAt(text, current_size, safe[3], padding, leading_factor)
       IN  /\ lines' = lay.lines
           /\ box_w' = lay.box_w
           /\ box_h' = lay.box_h
           /\ box_x2' = 2 * safe[1] + (safe[3] - lay.box_w)
           /\ box_y2' = 2 * safe[2] + (safe[4] - lay.box_h)
    /\ pc' = "drawn"
    /\ UNCHANGED <<text, font_size, page_w, page_h, margin, padding,
                   leading_factor, max_width_pt, current_size, fit_exit,
                   qty_result>>
    /\ UNCHANGED handlerVars

NextFit == FitIteration \/ Place

SpecFit == InitFit /\ [][NextFit]_vars

(***************************************************************************)
(* layout_lines and measure_text_box re-applied at ever smaller sizes, as   *)
(* the loop of add_page_with_text does, over the sizes it can pass through *)
(* on its way to the floor                                                 *)
(***************************************************************************)
InitShrink ==
    /\ pc = "measure"
    /\ text \in LayoutTexts \cup WrapTexts
    /\ font_size = 22
    /\ max_width_pt \in {5 * PT, 15 * PT, 25 * PT, 40 * PT}
    /\ padding \in {0, MM}
    /\ leading_factor = 12
    /\ current_size = font_size
    /\ LET lay == LayoutAt(text, font_size, max_width_pt, padding, leading_factor)
       IN  lines = lay.lines /\ box_w = lay.box_w /\ box_h = lay.box_h
    /\ page_w = 0 /\ page_h = 0 /\ margin = 0
    /\ box_x2 = 0 /\ box_y2 = 0 /\ fit_exit = "none"
    /\ NoQty /\ NoEvent

Remeasure ==
    /\ pc = "measure"
    /\ Shrink(current_size) >= MinSize - 1
    /\ current_size' = Shrink(current_size)
    /\ LET lay == LayoutAt(text, Shrink(current_size), max_width_pt, padding,
                           leading_factor)
       IN  lines' = lay.lines /\ box_w' = lay.box_w /\ box_h' = lay.box_h
    /\ UNCHANGED <<pc, text, font_size, page_w, page_h, margin, padding,
                   leading_factor, max_width_pt, box_x2, box_y2, fit_exit,
                   qty_result>>
    /\ UNCHANGED handlerVars

SpecShrink == InitShrink /\ [][Remeasure]_vars

(***************************************************************************)
(* Properties of the layout engine                                         *)
(***************************************************************************)
HasLineBreak(t) == \E i \in 1..Len(t) : t[i] = "\n"

\* C1: the size add_page_with_text draws the page with is at least the floor
\* of 6 points and at most the start size, also when the loop leaves through
\* the floor branch.
C1_DrawnSizeBetweenFloorAndStart ==
    pc = "drawn" => (current_size >= MinSize /\ current_size <= font_size)

\* C2: when the loop ended because the box fit, the placed padded box lies
\* inside the page inset by the margin on all four sides and is centred in
\* that area horizontally and vertically.
C2_FittedBoxInsideInsetPageAndCentred ==
    (pc = "drawn" /\ fit_exit = "fit") =>
        /\ box_x2 >= 2 * margin
        /\ box_x2 + 2 * box_w <= 2 * (page_w - margin)
        /\ box_y2 >= 2 * margin
        /\ box_y2 + 2 * box_h <= 2 * (page_h - margin)
        /\ box_x2 + box_w = page_w
        /\ box_y2 + box_h = page_h

\* C3 (as claimed): laying out and measuring at a smaller size never gives a
\* wider or a higher padded box than at the bigger size.
C3_SmallerSizeNeverWiderNorHigher ==
    [][(box_w' <= box_w) /\ (box_h' <= box_h)]_vars

\* C3 (amended): laying out and measuring at a smaller size never gives more
\* lines or a higher padded box, and never a wider padded box when the text
\* has explicit line breaks.
C3_SmallerSizeNeverHigher ==
    [][/\ box_h' <= box_h
       /\ Len(lines') <= Len(lines)
       /\ (HasLineBreak(text) => box_w' <= box_w)]_vars

\* a re-measure at a smaller size that merged lines: lower box, wider box
C3_Witness ==
    /\ pc = "measure"
    /\ current_size < font_size
    /\ ~HasLineBreak(text)
    /\ LET first == LayoutAt(text, font_size, max_width_pt, padding, leading_factor)
       IN  /\ Len(lines) < Len(first.lines)
           /\ box_h < first.box_h
           /\ box_w > first.box_w

\* C4: for a text without line breaks and a max width no smaller than the
\* widest word, every wrapped line measures at most the max width; a word
\* wider than the max width is a line of its own, whole.
C4_WrappedLinesWithinMaxWidth ==
    (pc = "wrapped" /\ ~HasLineBreak(text)) =>
        LET words == Split(text)
        IN  /\ (\A k \in 1..Len(words) :
                    StringWidth(words[k], current_size) <= max_width_pt)
               => (\A i \in 1..Len(lines) :
                    StringWidth(lines[i], current_size) <= max_width_pt)
            /\ \A i \in 1..Len(lines) :
                 \A j \in 1..Len(Split(lines[i])) :
                    StringWidth(Split(lines[i])[j], current_size) > max_width_pt
                    => lines[i] = Split(lines[i])[j]
            /\ \A k \in 1..Len(words) :
                 StringWidth(words[k], current_size) > max_width_pt
                 => \E i \in 1..Len(lines) : lines[i] = words[k]

\* a wrap into several lines, one of them holding more than one word
C4_Witness ==
    /\ pc = "wrapped" /\ ~HasLineBreak(text)
    /\ \A k \in 1..Len(Split(text)) :
          StringWidth(Split(text)[k], current_size) <= max_width_pt
    /\ Len(lines) >= 2
    /\ \E i \in 1..Len(lines) : Len(Split(lines[i])) >= 2

\* C5: for a text without line breaks, the wrapped lines joined by single
\* spaces and split on whitespace are the words of the text, in order; no
\* line is empty unless the text has no word, and then the result is the
\* single empty line.
C5_WrapKeepsWordSequence ==
    (pc = "wrapped" /\ ~HasLineBreak(text)) =>
        /\ Split(JoinSpace(lines)) = Split(text)
        /\ (Split(text) # <<>> => \A i \in 1..Len(lines) : lines[i] # <<>>)
        /\ (Split(text) = <<>> => lines = << <<>> >>)

\* a wrap of three words into two lines
C5_Witness ==
    /\ pc = "wrapped" /\ ~HasLineBreak(text)
    /\ Len(Split(text)) >= 3
    /\ Len(lines) = 2

(***************************************************************************)
(* Quantity parser                                                         *)
(***************************************************************************)
\* (?i): the letters of the pattern match in either case
Lower(c) ==
    CASE c = "Q" -> "q"
      [] c = "T" -> "t"
      [] c = "Y" -> "y"
      [] OTHER -> c

Digits == {"0", "1", "2", "3", "4", "5", "6", "7", "8", "9"}

DigitVal(c) ==
    CASE c = "0" -> 0 [] c = "1" -> 1 [] c = "2" -> 2 [] c = "3" -> 3
      [] c = "4" -> 4 [] c = "5" -> 5 [] c = "6" -> 6 [] c = "7" -> 7
      [] c = "8" -> 8 [] c = "9" -> 9

IsDigitAt(t, q) == q <= Len(t) /\ t[q] \in Digits

\* (?=\s|$) before position q
LookAhead(t, q) == q > Len(t) \/ IsSpace(t[q])

\* qty:(\d{1,2})(?=\s|$) with the q at position p: <<>> when it does not
\* match, else <<position of the last digit, int(group 1)>>; two digits are
\* tried before one
QtyAt(t, p) ==
    IF /\ p + 3 <= Len(t)
       /\ Lower(t[p]) = "q" /\ Lower(t[p + 1]) = "t"
       /\ Lower(t[p + 2]) = "y" /\ t[p + 3] = ":"
    THEN IF IsDigitAt(t, p + 4) /\ IsDigitAt(t, p + 5) /\ LookAhead(t, p + 6)
         THEN <<p + 5, 10 * DigitVal(t[p + 4]) + DigitVal(t[p + 5])>>
         ELSE IF IsDigitAt(t, p + 4) /\ LookAhead(t, p + 5)
              THEN <<p + 4, DigitVal(t[p + 4])>>
              ELSE <<>>
    ELSE <<>>

\* the pattern tried at position i: (?:^|\s) then the rest
MatchAt(t, i) ==
    IF i = 1 /\ QtyAt(t, 1) # <<>>
    THEN <<1, QtyAt(t, 1)[1], QtyAt(t, 1)[2]>>
    ELSE IF i <= Len(t) /\ IsSpace(t[i]) /\ QtyAt(t, i + 1) # <<>>
         THEN <<i, QtyAt(t, i + 1)[1], QtyAt(t, i + 1)[2]>>
         ELSE <<>>

\* _QTY_RE.search(text): the leftmost match, <<first, last, qty>>, or <<>>
RECURSIVE SearchFrom(_, _)
SearchFrom(t, i) ==
    IF i > Len(t) THEN <<>>
    ELSE IF MatchAt(t, i) # <<>> THEN MatchAt(t, i)
    ELSE SearchFrom(t, i + 1)

\* re.sub(r"\s+", " ", s)
RECURSIVE CollapseSpace(_)
CollapseSpace(s) ==
    IF s = <<>> THEN <<>>
    ELSE IF IsSpace(Head(s))
         THEN <<" ">> \o CollapseSpace(LStrip(s))
         ELSE <<Head(s)>> \o CollapseSpace(Tail(s))

\* the range test reads 0 <= qty <= 30
parse_qty_zero_allowed(t) ==
    LET m == SearchFrom(t, 1)
    IN  IF m = <<>> THEN <<1, Strip(t)>>
        ELSE IF ~(0 <= m[3] /\ m[3] <= 30) THEN <<1, Strip(t)>>
        ELSE <<m[3], CollapseSpace(Strip(SubSeq(t, 1, m[1] - 1)
                                         \o SubSeq(t, m[2] + 1, Len(t))))>>

\* returns <<qty, cleaned text>>
parse_qty(t) ==
    LET m == SearchFrom(t, 1)
    IN  IF m = <<>> THEN <<1, Strip(t)>>
        ELSE IF ~(1 <= m[3] /\ m[3] <= 30) THEN <<1, Strip(t)>>
        ELSE <<m[3], CollapseSpace(Strip(SubSeq(t, 1, m[1] - 1)
                                         \o SubSeq(t, m[2] + 1, Len(t))))>>

RECURSIVE PieceTexts(_, _)
PieceTexts(pieces, n) ==
    IF n = 0 THEN {<<>>}
    ELSE LET shorter == PieceTexts(pieces, n - 1)
         IN  shorter \cup {t \o q : t \in shorter, q \in pieces}

QtyPieces ==
    {<<"q", "t", "y", ":", "3">>, <<"Q", "t", "Y", ":", "3", "0">>,
     <<"q", "t", "y", ":", "0">>, <<"1">>, <<" ">>, <<"\n">>, <<"a">>}

QtyTexts == PieceTexts(QtyPieces, MaxQtyPieces)

InitQty ==
    /\ pc = "parse"
    /\ text \in QtyTexts
    /\ qty_result = <<0, <<>>>>
    /\ NoLayout /\ NoEvent

ParseQty ==
    /\ pc = "parse"
    /\ qty_result' = parse_qty(text)
    /\ pc' = "parsed"
    /\ UNCHANGED <<text>>
    /\ UNCHANGED layoutVars
    /\ UNCHANGED handlerVars

SpecQty == InitQty /\ [][ParseQty]_vars

\* the quantity tokens of a text, as its whitespace-delimited words see them
IsQtyToken(w) ==
    /\ Len(w) \in {5, 6}
    /\ Lower(w[1]) = "q" /\ Lower(w[2]) = "t" /\ Lower(w[3]) = "y" /\ w[4] = ":"
    /\ \A k \in 5..Len(w) : w[k] \in Digits

TokenValue(w) ==
    IF Len(w) = 5 THEN DigitVal(w[5]) ELSE 10 * DigitVal(w[5]) + DigitVal(w[6])

QtyTokenIndexes(t) == {k \in 1..Len(Split(t)) : IsQtyToken(Split(t)[k])}

FirstIndex(S) == CHOOSE k \in S : \A j \in S : k <= j

WithoutIndex(ws, k) == SubSeq(ws, 1, k - 1) \o SubSeq(ws, k + 1, Len(ws))

PageOf(t, fs, pw, ph, m, pad, lf) ==
    [text |-> t, font_size |-> fs, page_w |-> pw, page_h |-> ph,
     margin |-> m, padding |-> pad, leading_factor |-> lf]

\* defaults of create_pdf_with_safe_area_centered_textbox
DefaultMarginMM == 4
DefaultPaddingMM == 2
\* font_size=200, in half points
DefaultFontSize == 400
\* leading_factor=1.2, in tenths
DefaultLeadingFactor == 12

\* the for loop of create_pdf_with_safe_area_centered_textbox: one page per
\* item that is not the empty string
RECURSIVE RenderPages(_, _, _)
RenderPages(items, pw, ph) ==
    IF items = <<>> THEN <<>>
    ELSE IF Head(items) = <<>> THEN RenderPages(Tail(items), pw, ph)
    ELSE <<PageOf(Head(items), DefaultFontSize, pw, ph,
                  DefaultMarginMM * MM, DefaultPaddingMM * MM,
                  DefaultLeadingFactor)>>
         \o RenderPages(Tail(items), pw, ph)

\* items: the list of texts (a single string is passed as a list of one)
create_pdf_with_safe_area_centered_textbox(items, page_w_mm, page_h_mm) ==
    [pagesize |-> <<page_w_mm * MM, page_h_mm * MM>>,
     pages |-> RenderPages(items, page_w_mm * MM, page_h_mm * MM),
     raw |-> <<>>]

(***************************************************************************)
(* Print dispatcher                                                        *)
(***************************************************************************)
\* what the relay answers: an HTTP status with a body, or nothing at all
\* (status 0: transport failure or timeout, requests.post raises)
RelayReplies ==
    {[status |-> 201, body |-> "number"],
     [status |-> 201, body |-> "other"],
     [status |-> 200, body |-> "number"],
     [status |-> 500, body |-> "other"],
     [status |-> 0, body |-> "none"]}

\* base64.b64encode(pdf_bytes).decode("ascii")
B64(bytes) == [b64 |-> bytes]

\* a dispatcher that takes every 2xx status for success
print_pdf_with_printnode_any_2xx(printer_id, pdf_bytes, qty, reply) ==
    [requests |-> <<[printerId |-> printer_id, title |-> "Print job",
                     source |-> "python", contentType |-> "pdf_base64",
                     content |-> B64(pdf_bytes), qty |-> qty]>>,
     returned |-> reply.status \in 200..299 /\ reply.body = "number"]

\* requests: the requests posted; returned: whether a job id is returned
\* (otherwise the call raises)
print_pdf_with_printnode(printer_id, pdf_bytes, qty, reply) ==
    [requests |-> <<[printerId |-> printer_id, title |-> "Print job",
                     source |-> "python", contentType |-> "pdf_base64",
                     content |-> B64(pdf_bytes), qty |-> qty]>>,
     returned |-> IF reply.status = 0 THEN FALSE
                  ELSE IF reply.status # 201 THEN FALSE
                  ELSE reply.body = "number"]

(***************************************************************************)
(* Event router                                                            *)
(***************************************************************************)
ConfiguredChannels == {"C0A9B0T1938", "C0A9GFLL64B", "C0AAWHQUKR6"}

channel_id_to_printer_settings_map ==
    [c \in ConfiguredChannels |->
        CASE c = "C0A9B0T1938" ->
                [printer_id |-> 75094179, label_width_mm |-> 100,
                 label_height_mm |-> 75]
          [] c = "C0A9GFLL64B" ->
                [printer_id |-> 75093701, label_width_mm |-> 192,
                 label_height_mm |-> 102]
          [] c = "C0AAWHQUKR6" ->
                [printer_id |-> 72775345, label_width_mm |-> 192,
                 label_height_mm |-> 102]]

Channels == ConfiguredChannels \cup {"C_NOT_CONFIGURED"}

\* the outcome of a handler: the requests it posted to the relay, the
\* messages it sent to the chat, whether it ended by raising.  The calls to
\* the chat platform (files_info, ack, chat_postMessage) are taken to
\* succeed; the download and the relay may fail.
Outcome(p, m, r) == [posts |-> p, msgs |-> m, raised |-> r]

\* the /l command
hello_command(channel_id, body_text, reply) ==
    LET parsed == parse_qty(body_text)
    IN  IF channel_id \in DOMAIN channel_id_to_printer_settings_map
        THEN LET printer_settings == channel_id_to_printer_settings_map[channel_id]
                 pdf_bytes == create_pdf_with_safe_area_centered_textbox(
                                  <<parsed[2]>>,
                                  printer_settings.label_width_mm,
                                  printer_settings.label_height_mm)
                 sent == print_pdf_with_printnode(printer_settings.printer_id,
                                                  pdf_bytes, parsed[1], reply)
             IN  IF sent.returned
                 THEN Outcome(sent.requests,
                              <<[kind |-> "ack", text |-> "Printing now",
                                 count |-> 0]>>, FALSE)
                 ELSE Outcome(sent.requests, <<>>, TRUE)
        ELSE Outcome(<<>>,
                     <<[kind |-> "ack",
                        text |-> "No label printer configured for this channel",
                        count |-> 0]>>, FALSE)

\* resp.content of an uploaded PDF, forwarded as it is
UploadedPdf(data) == [pagesize |-> <<0, 0>>, pages |-> <<>>, raw |-> data]

\* download_ok: requests.get answered and raise_for_status() let it pass
print_slack_pdf_file(printer_id, data, download_ok, reply) ==
    IF ~download_ok THEN [requests |-> <<>>, returned |-> FALSE]
    ELSE print_pdf_with_printnode(printer_id, UploadedPdf(data), 1, reply)

\* bytes.decode("utf-8", errors="replace"): an invalid byte becomes U+FFFD
DecodeChar(b) == IF b = "xFF" THEN "uFFFD" ELSE b

Decode(data) == [i \in 1..Len(data) |-> DecodeChar(data[i])]

NotBlank(line) == Strip(line) # <<>>

\* a text upload that keeps every line
print_slack_txt_file_unfiltered(printer_settings, data, download_ok, reply) ==
    IF ~download_ok THEN [requests |-> <<>>, returned |-> FALSE, count |-> 0]
    ELSE LET kept == SplitLines(Decode(data))
             pdf_bytes == create_pdf_with_safe_area_centered_textbox(
                              kept, printer_settings.label_width_mm,
                              printer_settings.label_height_mm)
             sent == print_pdf_with_printnode(printer_settings.printer_id,
                                              pdf_bytes, 1, reply)
         IN  [requests |-> sent.requests, returned |-> sent.returned,
              count |-> Len(kept)]

\* count: the value returned, len(lines)
print_slack_txt_file(printer_settings, data, download_ok, reply) ==
    IF ~download_ok THEN [requests |-> <<>>, returned |-> FALSE, count |-> 0]
    ELSE LET kept == SelectSeq(SplitLines(Decode(data)), NotBlank)
             pdf_bytes == create_pdf_with_safe_area_centered_textbox(
                              kept, printer_settings.label_width_mm,
                              printer_settings.label_height_mm)
             sent == print_pdf_with_printnode(printer_settings.printer_id,
                                              pdf_bytes, 1, reply)
         IN  [requests |-> sent.requests, returned |-> sent.returned,
              count |-> Len(kept)]

PdfPosted ==
    [kind |-> "post", text |-> "Printing the posted PDF file", count |-> 0]

LabelsPosted(n) ==
    [kind |-> "post", text |-> "Printing labels based the posted text file",
     count |-> n]

\* a file_shared handler that takes every file that is not a PDF for text
handle_file_shared_events_else_text(channel_id, filetype, data, download_ok, reply) ==
    IF channel_id \in DOMAIN channel_id_to_printer_settings_map
    THEN LET printer_settings == channel_id_to_printer_settings_map[channel_id]
         IN  IF filetype = "pdf"
             THEN LET sent == print_slack_pdf_file(printer_settings.printer_id,
                                                   data, download_ok, reply)
                  IN  IF sent.returned
                      THEN Outcome(sent.requests, <<PdfPosted>>, FALSE)
                      ELSE Outcome(sent.requests, <<>>, TRUE)
             ELSE LET sent == print_slack_txt_file(printer_settings, data,
                                                   download_ok, reply)
                  IN  IF sent.returned
                      THEN Outcome(sent.requests, <<LabelsPosted(sent.count)>>,
                                   FALSE)
                      ELSE Outcome(sent.requests, <<>>, TRUE)
    ELSE Outcome(<<>>,
                 <<[kind |-> "post",
                    text |-> "No label printer is designated to handle this channel.",
                    count |-> 0]>>, FALSE)

\* the file_shared event; filetype is file_info["file"]["filetype"]
handle_file_shared_events(channel_id, filetype, data, download_ok, reply) ==
    IF channel_id \in DOMAIN channel_id_to_printer_settings_map
    THEN LET printer_settings == channel_id_to_printer_settings_map[channel_id]
         IN  IF filetype # "pdf" /\ filetype # "text"
             THEN Outcome(<<>>,
                          <<[kind |-> "post",
                             text |-> "Only PDF and plain text files are supported.",
                             count |-> 0]>>, FALSE)
             ELSE IF filetype = "pdf"
             THEN LET sent == print_slack_pdf_file(printer_settings.printer_id,
                                                   data, download_ok, reply)
                  IN  IF sent.returned
                      THEN Outcome(sent.requests, <<PdfPosted>>, FALSE)
                      ELSE Outcome(sent.requests, <<>>, TRUE)
             ELSE LET sent == print_slack_txt_file(printer_settings, data,
                                                   download_ok, reply)
                  IN  IF sent.returned
                      THEN Outcome(sent.requests, <<LabelsPosted(sent.count)>>,
                                   FALSE)
                      ELSE Outcome(sent.requests, <<>>, TRUE)
    ELSE Outcome(<<>>,
                 <<[kind |-> "post",
                    text |-> "No label printer is designated to handle this channel.",
                    count |-> 0]>>, FALSE)

(***************************************************************************)
(* The bot: one event handled to completion per step                       *)
(***************************************************************************)
CmdPieces ==
    {<<"a">>, <<"W">>, <<" ">>, <<"q", "t", "y", ":", "3">>,
     <<"q", "t", "y", ":", "0">>}

CmdTexts == PieceTexts(CmdPieces, MaxCmdPieces)

FileTypes == {"pdf", "text", "png"}

FileBytes == {"a", " ", "\n"}

FileContents == Strings(FileBytes, MaxFileLen)

Init ==
    /\ pc = "idle"
    /\ text = <<>>
    /\ NoLayout /\ NoQty /\ NoEvent

\* a /l command arrives and hello_command runs to its end
HelloCommand ==
    /\ pc = "idle"
    /\ \E ch \in Channels, t \in CmdTexts, reply \in RelayReplies :
         LET out == hello_command(ch, t, reply)
         IN  /\ event' = [kind |-> "command", channel |-> ch, text |-> t,
                          filetype |-> "", data |-> <<>>, download_ok |-> TRUE,
                          reply |-> reply]
             /\ posts' = out.posts
             /\ msgs' = out.msgs
             /\ raised' = out.raised
    /\ pc' = "handled"
    /\ UNCHANGED <<text, qty_result>>
    /\ UNCHANGED layoutVars

\* a file_shared event arrives and handle_file_shared_events runs to its end
FileShared ==
    /\ pc = "idle"
    /\ \E ch \in Channels, ft \in FileTypes, data \in FileContents,
          ok \in BOOLEAN, reply \in RelayReplies :
         LET out == handle_file_shared_events(ch, ft, data, ok, reply)
         IN  /\ event' = [kind |-> "file_shared", channel |-> ch, text |-> <<>>,
                          filetype |-> ft, data |-> data, download_ok |-> ok,
                          reply |-> reply]
             /\ posts' = out.posts
             /\ msgs' = out.msgs
             /\ raised' = out.raised
    /\ pc' = "handled"
    /\ UNCHANGED <<text, qty_result>>
    /\ UNCHANGED layoutVars

\* the handler has returned; nothing of the event is kept
NextEvent ==
    /\ pc = "handled"
    /\ pc' = "idle"
    /\ event' = [kind |-> "none", channel |-> "", text |-> <<>>, filetype |-> "",
                 data |-> <<>>, download_ok |-> TRUE,
                 reply |-> [status |-> 0, body |-> "none"]]
    /\ posts' = <<>> /\ msgs' = <<>> /\ raised' = FALSE
    /\ UNCHANGED <<text, qty_result>>
    /\ UNCHANGED layoutVars

Next == HelloCommand \/ FileShared \/ NextEvent

Spec == Init /\ [][Next]_vars

(***************************************************************************)
(* Properties of the handlers                                              *)
(***************************************************************************)
Configured(e) == e.channel \in DOMAIN channel_id_to_printer_settings_map

\* the document of a posted request
DocOf(request) == request.content.b64

LabelOf(e) ==
    <<channel_id_to_printer_settings_map[e.channel].label_width_mm * MM,
      channel_id_to_printer_settings_map[e.channel].label_height_mm * MM>>

\* C7: a text command on a channel with a printer configuration makes
\* exactly one relay submission, of a document of exactly one page sized to
\* the channel's label, with the quantity parse_qty returns for the command
\* text, whatever the text.
C7_CommandSubmitsOnePageDocument ==
    (pc = "handled" /\ event.kind = "command" /\ Configured(event)) =>
        /\ Len(posts) = 1
        /\ Len(DocOf(posts[1]).pages) = 1
        /\ DocOf(posts[1]).pagesize = LabelOf(event)
        /\ posts[1].qty = parse_qty(event.text)[1]

Informational ==
    {"No label printer configured for this channel",
     "No label printer is designated to handle this channel.",
     "Only PDF and plain text files are supported."}

\* C8: an event on a channel without a printer configuration, or an upload
\* of a file that is neither pdf nor text, makes no relay submission, sends
\* one informational or rejection message and raises nothing; any event
\* makes at most one submission.
C8_NoSubmissionWithoutPrinterOrForOtherFiles ==
    pc = "handled" =>
        /\ Len(posts) <= 1
        /\ (\/ ~Configured(event)
            \/ (event.kind = "file_shared" /\ event.filetype \notin {"pdf", "text"}))
           => /\ posts = <<>>
              /\ ~raised
              /\ Len(msgs) = 1
              /\ msgs[1].text \in Informational

\* an upload of another file kind on a channel that has a printer
C8_Witness ==
    /\ pc = "handled"
    /\ event.kind = "file_shared" /\ Configured(event)
    /\ event.filetype = "png" /\ event.download_ok
    /\ event.reply.status = 201
    /\ posts = <<>>
    /\ msgs # <<>>

PageTexts(doc) == [i \in 1..Len(doc.pages) |-> doc.pages[i].text]

NonEmpty(line) == line # <<>>

HasVisibleChar(line) == \E i \in 1..Len(line) : ~IsSpace(line[i])

TextUploadDispatched ==
    /\ pc = "handled"
    /\ event.kind = "file_shared" /\ event.filetype = "text"
    /\ posts # <<>>

\* C9 (as claimed): the document of a plain-text upload has one page per
\* non-empty line of the file, in file order; it is dispatched with quantity
\* 1 and the count reported is its number of pages.
C9_OnePagePerNonEmptyLine ==
    TextUploadDispatched =>
        /\ PageTexts(DocOf(posts[1])) = SelectSeq(SplitLines(Decode(event.data)), NonEmpty)
        /\ posts[1].qty = 1
        /\ \A i \in 1..Len(msgs) : msgs[i].count = Len(DocOf(posts[1]).pages)

\* C9 (amended): the document of a plain-text upload has one page per line
\* of the file that holds a character other than whitespace, in file order
\* (empty and whitespace-only lines give no page); it is dispatched with
\* quantity 1 and the count reported is its number of pages.
C9_OnePagePerNonBlankLine ==
    TextUploadDispatched =>
        /\ PageTexts(DocOf(posts[1]))
              = SelectSeq(SplitLines(Decode(event.data)), HasVisibleChar)
        /\ posts[1].qty = 1
        /\ \A i \in 1..Len(msgs) : msgs[i].count = Len(DocOf(posts[1]).pages)

\* an upload with a whitespace-only line between two lines of text, printed
C9_Witness ==
    /\ TextUploadDispatched
    /\ \E i \in 1..Len(SplitLines(event.data)) :
          /\ SplitLines(event.data)[i] # <<>>
          /\ ~HasVisibleChar(SplitLines(event.data)[i])
    /\ Len(DocOf(posts[1]).pages) = 2
    /\ msgs # <<>> /\ msgs[1].count = 2

SuccessTexts ==
    {"Printing now", "Printing the posted PDF file",
     "Printing labels based the posted text file"}

\* the events whose handler calls print_pdf_with_printnode
Dispatching(e) ==
    /\ Configured(e)
    /\ \/ e.kind = "command"
       \/ (e.kind = "file_shared" /\ e.filetype \in {"pdf", "text"} /\ e.download_ok)

\* C10: a call of print_pdf_with_printnode posts exactly one request and
\* returns only on status 201; on any other status, transport failure or
\* timeout it raises without a second request, and the handler sends no
\* success message: one is sent only after a submission answered 201.
C10_SingleRequestSuccessOnlyOnCreated ==
    pc = "handled" =>
        /\ (Dispatching(event) => Len(posts) = 1)
        /\ (~Dispatching(event) => posts = <<>>)
        /\ (Dispatching(event) /\ event.reply.status # 201) => (raised /\ msgs = <<>>)
        /\ (Dispatching(event) /\ ~raised) => event.reply.status = 201
        /\ \A i \in 1..Len(msgs) :
              msgs[i].text \in SuccessTexts
              => (Len(posts) = 1 /\ event.reply.status = 201)

\* a command whose submission the relay answered with an error status
C10_Witness ==
    /\ pc = "handled"
    /\ event.kind = "command" /\ Configured(event)
    /\ event.reply.status = 500
    /\ Len(posts) = 1
    /\ raised /\ msgs = <<>>

=============================================================================
